---- MODULE Spec2Model ----
(***************************************************************************)
(* Model of torch_trainer/_utils.py: the TorchTrainer epoch loop.          *)
(*                                                                         *)
(* One TorchTrainer object is modelled.  Its constructor arguments are     *)
(* chosen in Init; train() is unfolded into one action per statement of    *)
(* its body, so that a KeyboardInterrupt or a failing computation can be   *)
(* placed between any two of them.  A KeyboardInterrupt is delivered in    *)
(* the train phase, the evaluation phase or the commit phase (the try      *)
(* block of train()); a computation error is raised by forward, calc_loss, *)
(* backward or optimizer.step.                                             *)
(*                                                                         *)
(* Assumptions on the environment: every batch source yields at least one  *)
(* batch; two successive readings of time() differ (so 1 / time_diff is    *)
(* defined); no second KeyboardInterrupt arrives while the except and      *)
(* finally clauses run.  plt.plot(x, y) raises ValueError when x and y     *)
(* differ in length, which is how draw_info() can fail.                    *)
(*                                                                         *)
(* A mean s / n is kept as the pair <<s, n>>.  The values calc_loss may    *)
(* return and the steps of the clock are fixed by the initial state.       *)
(***************************************************************************)
EXTENDS Integers, Sequences, FiniteSets, TLC

\* ---- bounds of the model ------------------------------------------------
MaxEpochs == 2          \* n_epochs ranges over 1..MaxEpochs
MaxCalls == 3           \* train() invocations in one behaviour
NTrainBatches == 2      \* batches yielded by the train iterator
NValidBatches == 1      \* batches yielded by the valid iterator
NTestBatches == 1       \* batches yielded by the test iterator

VARIABLES
    \* constructor arguments (never change)
    has_valid, has_test, n_epochs, clip_rate, initial_mode,
    \* the environment (never changes): the values calc_loss can return and
    \* the amounts by which time() can advance between two readings
    loss_vals, tick_vals,
    \* attributes of the trainer and of the network
    training, epoch, completed,
    train_loss_history, valid_loss_history, test_loss_history,
    time_elapsed, time_stamp, train_loss, val_loss, test_loss,
    \* the wall clock read by time()
    now,
    \* locals of train(): position, loop variable, enumerate counter,
    \* iterator cursor, loss of the batch, accumulators, exception in flight
    pc, loop_epoch, n_batch, it, loss, l_train_loss, l_val_loss, l_test_loss, exc,
    \* history variables: what the caller saw last, invocations so far,
    \* whether this invocation started right after clear_history(), and the
    \* epochs, batches and reports of this invocation
    last, calls, fresh, epochs_run, batches, reports,
    \* history variables: the value of epoch when this invocation started, the
    \* clock time spent inside train() up to a timing update since the last
    \* clear_history(), and the batch losses of the current epoch, per source
    start_epoch, run_time, seen_train, seen_valid, seen_test, clips

cfg == <<has_valid, has_test, n_epochs, clip_rate, initial_mode, loss_vals, tick_vals>>
hist == <<train_loss_history, valid_loss_history, test_loss_history>>
timing == <<time_elapsed, time_stamp, now, run_time>>
losses == <<train_loss, val_loss, test_loss>>
seen == <<seen_train, seen_valid, seen_test, clips>>
locals == <<loop_epoch, n_batch, it, loss, l_train_loss, l_val_loss, l_test_loss, exc, seen>>
ghost == <<last, calls, start_epoch, fresh, epochs_run, batches, reports>>
vars == <<cfg, training, epoch, completed, hist, timing, losses, pc, locals, ghost>>

\* a quotient a / b kept exact as the pair of its operands
Mean(sum, n) == <<sum, n>>

\* the state __init__ leaves, for any constructor arguments
Constructed ==
    /\ has_valid \in BOOLEAN
    /\ has_test \in BOOLEAN
    /\ n_epochs \in 1..MaxEpochs
    /\ clip_rate \in BOOLEAN
    /\ initial_mode \in BOOLEAN
    /\ training = initial_mode
    /\ epoch = 1
    /\ completed = FALSE
    /\ train_loss_history = <<>>
    /\ valid_loss_history = <<>>
    /\ test_loss_history = <<>>
    /\ time_elapsed = 0
    /\ time_stamp = 0
    /\ now = 0
    /\ train_loss = Mean(0, 1)
    /\ val_loss = Mean(0, 1)
    /\ test_loss = Mean(0, 1)
    /\ pc = "idle"
    /\ loop_epoch = 0
    /\ n_batch = 0
    /\ it = 0
    /\ loss = 0
    /\ l_train_loss = 0
    /\ l_val_loss = 0
    /\ l_test_loss = 0
    /\ exc = "none"
    /\ last = "constructed"
    /\ calls = 0
    /\ fresh = FALSE
    /\ epochs_run = 0
    /\ batches = 0
    /\ reports = 0
    /\ start_epoch = 1
    /\ run_time = 0
    /\ seen_train = <<>>
    /\ seen_valid = <<>>
    /\ seen_test = <<>>
    /\ clips = 0

Init ==
    /\ loss_vals = {1}
    /\ tick_vals = {1, 2}
    /\ Constructed

\* the frame of train() is dropped when the invocation ends
DropFrame ==
    /\ loop_epoch' = 0
    /\ n_batch' = 0
    /\ it' = 0
    /\ loss' = 0
    /\ l_train_loss' = 0
    /\ l_val_loss' = 0
    /\ l_test_loss' = 0
    /\ exc' = "none"
    /\ seen_train' = <<>>
    /\ seen_valid' = <<>>
    /\ seen_test' = <<>>
    /\ clips' = 0

\* an exception leaves train(): the caller is back in control
Propagate(what) ==
    /\ pc' = "idle"
    /\ last' = what
    /\ DropFrame

\* clear_history() that forgets the epoch counter
ClearHistoryKeepsEpoch ==
    /\ pc = "idle"
    /\ valid_loss_history' = <<>>
    /\ train_loss_history' = <<>>
    /\ test_loss_history' = <<>>
    /\ completed' = FALSE
    /\ time_elapsed' = 0
    /\ run_time' = 0
    /\ last' = "cleared"
    /\ UNCHANGED <<cfg, training, epoch, time_stamp, now, losses, pc, locals>>
    /\ UNCHANGED <<calls, start_epoch, fresh, epochs_run, batches, reports>>

\* clear_history()
ClearHistory ==
    /\ pc = "idle"
    /\ valid_loss_history' = <<>>
    /\ train_loss_history' = <<>>
    /\ test_loss_history' = <<>>
    /\ epoch' = 1
    /\ completed' = FALSE
    /\ time_elapsed' = 0
    /\ run_time' = 0
    /\ last' = "cleared"
    /\ UNCHANGED <<cfg, training, time_stamp, now, losses, pc, locals>>
    /\ UNCHANGED <<calls, start_epoch, fresh, epochs_run, batches, reports>>

\* train() whose loop body runs once before the range is tested
TrainCallAlwaysRuns ==
    /\ pc = "idle"
    /\ calls < MaxCalls
    /\ \E d \in tick_vals :
        /\ now' = now + d
        /\ time_stamp' = now + d
    /\ pc' = "epoch_begin"
    /\ loop_epoch' = epoch
    /\ calls' = calls + 1
    /\ start_epoch' = epoch
    /\ fresh' = (last = "cleared")
    /\ last' = "running"
    /\ epochs_run' = 0
    /\ batches' = 0
    /\ reports' = 0
    /\ UNCHANGED <<cfg, training, epoch, completed, hist, time_elapsed, run_time, losses>>
    /\ UNCHANGED <<n_batch, it, loss, l_train_loss, l_val_loss, l_test_loss, exc, seen>>

\* train(): the prologue up to the first test of the for loop
TrainCall ==
    /\ pc = "idle"
    /\ calls < MaxCalls
    /\ \E d \in tick_vals :
        /\ now' = now + d
        /\ time_stamp' = now + d
    /\ IF epoch <= n_epochs
          THEN pc' = "epoch_begin" /\ loop_epoch' = epoch
          ELSE pc' = "finish" /\ loop_epoch' = loop_epoch
    /\ calls' = calls + 1
    /\ start_epoch' = epoch
    /\ fresh' = (last = "cleared")
    /\ last' = "running"
    /\ epochs_run' = 0
    /\ batches' = 0
    /\ reports' = 0
    /\ UNCHANGED <<cfg, training, epoch, completed, hist, time_elapsed, run_time, losses>>
    /\ UNCHANGED <<n_batch, it, loss, l_train_loss, l_val_loss, l_test_loss, exc, seen>>

\* train_loss = 0; network.train(True); iter(train_iterator)
EpochBegin ==
    /\ pc = "epoch_begin"
    /\ l_train_loss' = 0
    /\ training' = TRUE
    /\ it' = 0
    /\ epochs_run' = epochs_run + 1
    /\ pc' = "train_iter"
    /\ UNCHANGED <<cfg, epoch, completed, hist, timing, losses>>
    /\ seen_train' = <<>>
    /\ seen_valid' = <<>>
    /\ seen_test' = <<>>
    /\ clips' = 0
    /\ UNCHANGED <<loop_epoch, n_batch, loss, l_val_loss, l_test_loss, exc>>
    /\ UNCHANGED <<last, calls, start_epoch, fresh, batches, reports>>

\* one step of `for n_batch, batch in enumerate(source, 1)`
NextBatch(size, body, after) ==
    /\ IF it < size
          THEN /\ it' = it + 1
               /\ n_batch' = it + 1
               /\ pc' = body
          ELSE /\ it' = it
               /\ n_batch' = n_batch
               /\ pc' = after
    /\ UNCHANGED <<cfg, training, epoch, completed, hist, timing, losses>>
    /\ UNCHANGED <<loop_epoch, loss, l_train_loss, l_val_loss, l_test_loss, exc, seen>>
    /\ UNCHANGED ghost

\* a statement of the loop body that changes nothing the trainer keeps
Goto(from, to) ==
    /\ pc = from
    /\ pc' = to
    /\ UNCHANGED <<cfg, training, epoch, completed, hist, timing, losses, locals, ghost>>

\* loss = calc_loss(batch, result)
LossAt(from, to) ==
    /\ pc = from
    /\ loss' \in loss_vals
    /\ pc' = to
    /\ UNCHANGED <<cfg, training, epoch, completed, hist, timing, losses>>
    /\ UNCHANGED <<loop_epoch, n_batch, it, l_train_loss, l_val_loss, l_test_loss, exc, seen>>
    /\ UNCHANGED ghost

TrainNext == pc = "train_iter" /\ NextBatch(NTrainBatches, "zero_grad", "train_mean")

ZeroGrad == Goto("zero_grad", "forward")

Forward == Goto("forward", "calc_loss")

CalcLoss == LossAt("calc_loss", "backward")

\* loss.backward() followed by clip_grad_norm_ whatever clip_rate is
BackwardAlwaysClips == Goto("backward", "clip")

\* loss.backward(); if self._clip_rate is not None
Backward == Goto("backward", IF clip_rate THEN "clip" ELSE "step")

\* clip_grad_norm_(self._network.parameters(), self._clip_rate)
Clip ==
    /\ pc = "clip"
    /\ clips' = clips + 1
    /\ pc' = "step"
    /\ UNCHANGED <<cfg, training, epoch, completed, hist, timing, losses, ghost>>
    /\ UNCHANGED <<loop_epoch, n_batch, it, loss, l_train_loss, l_val_loss, l_test_loss, exc>>
    /\ UNCHANGED <<seen_train, seen_valid, seen_test>>

Step == Goto("step", "accum")

\* train_loss = loss.item(): the running sum overwritten by the last batch
AccumOverwrites ==
    /\ pc = "accum"
    /\ l_train_loss' = loss
    /\ seen_train' = Append(seen_train, loss)
    /\ batches' = batches + 1
    /\ pc' = "train_iter"
    /\ UNCHANGED <<cfg, training, epoch, completed, hist, timing, losses>>
    /\ UNCHANGED <<loop_epoch, n_batch, it, loss, l_val_loss, l_test_loss, exc>>
    /\ UNCHANGED <<seen_valid, seen_test, clips>>
    /\ UNCHANGED <<last, calls, start_epoch, fresh, epochs_run, reports>>

\* train_loss += loss.item()
Accum ==
    /\ pc = "accum"
    /\ l_train_loss' = l_train_loss + loss
    /\ seen_train' = Append(seen_train, loss)
    /\ batches' = batches + 1
    /\ pc' = "train_iter"
    /\ UNCHANGED <<cfg, training, epoch, completed, hist, timing, losses>>
    /\ UNCHANGED <<loop_epoch, n_batch, it, loss, l_val_loss, l_test_loss, exc>>
    /\ UNCHANGED <<seen_valid, seen_test, clips>>
    /\ UNCHANGED <<last, calls, start_epoch, fresh, epochs_run, reports>>

\* the end of the train phase without the test of line 298
TrainMeanAlwaysEval ==
    /\ pc = "train_mean"
    /\ train_loss' = Mean(l_train_loss, n_batch)
    /\ pc' = "eval_begin"
    /\ UNCHANGED <<cfg, training, epoch, completed, hist, timing, val_loss, test_loss>>
    /\ UNCHANGED <<locals, ghost>>

\* train_loss /= n_batch; self.__train_loss = train_loss; if has_valid or has_test
TrainMean ==
    /\ pc = "train_mean"
    /\ train_loss' = Mean(l_train_loss, n_batch)
    /\ pc' = IF has_valid \/ has_test THEN "eval_begin" ELSE "save_train"
    /\ UNCHANGED <<cfg, training, epoch, completed, hist, timing, val_loss, test_loss>>
    /\ UNCHANGED <<locals, ghost>>

\* test_loss = val_loss = 0; network.train(False); if self._has_valid
EvalBegin ==
    /\ pc = "eval_begin"
    /\ l_test_loss' = 0
    /\ l_val_loss' = 0
    /\ training' = FALSE
    /\ it' = 0
    /\ pc' = IF has_valid THEN "valid_iter" ELSE "test_iter"
    /\ UNCHANGED <<cfg, epoch, completed, hist, timing, losses>>
    /\ UNCHANGED <<loop_epoch, n_batch, loss, l_train_loss, exc, seen>>
    /\ UNCHANGED ghost

ValidNext == pc = "valid_iter" /\ NextBatch(NValidBatches, "valid_forward", "valid_mean")

ValidForward == Goto("valid_forward", "valid_loss")

ValidLoss == LossAt("valid_loss", "valid_accum")

\* val_loss += loss
ValidAccum ==
    /\ pc = "valid_accum"
    /\ l_val_loss' = l_val_loss + loss
    /\ seen_valid' = Append(seen_valid, loss)
    /\ batches' = batches + 1
    /\ pc' = "valid_iter"
    /\ UNCHANGED <<cfg, training, epoch, completed, hist, timing, losses>>
    /\ UNCHANGED <<loop_epoch, n_batch, it, loss, l_train_loss, l_test_loss, exc>>
    /\ UNCHANGED <<seen_train, seen_test, clips>>
    /\ UNCHANGED <<last, calls, start_epoch, fresh, epochs_run, reports>>

\* val_loss /= n_batch; self.__val_loss = val_loss; if self._has_test
ValidMean ==
    /\ pc = "valid_mean"
    /\ val_loss' = Mean(l_val_loss, n_batch)
    /\ it' = 0
    /\ pc' = IF has_test THEN "test_iter" ELSE "save_train"
    /\ UNCHANGED <<cfg, training, epoch, completed, hist, timing, train_loss, test_loss>>
    /\ UNCHANGED <<loop_epoch, n_batch, loss, l_train_loss, l_val_loss, l_test_loss, exc, seen>>
    /\ UNCHANGED ghost

TestNext == pc = "test_iter" /\ NextBatch(NTestBatches, "test_forward", "test_mean")

TestForward == Goto("test_forward", "test_loss")

TestLoss == LossAt("test_loss", "test_accum")

\* test_loss += loss
TestAccum ==
    /\ pc = "test_accum"
    /\ l_test_loss' = l_test_loss + loss
    /\ seen_test' = Append(seen_test, loss)
    /\ batches' = batches + 1
    /\ pc' = "test_iter"
    /\ UNCHANGED <<cfg, training, epoch, completed, hist, timing, losses>>
    /\ UNCHANGED <<loop_epoch, n_batch, it, loss, l_train_loss, l_val_loss, exc>>
    /\ UNCHANGED <<seen_train, seen_valid, clips>>
    /\ UNCHANGED <<last, calls, start_epoch, fresh, epochs_run, reports>>

\* test_loss /= n_batch; self.__test_loss = test_loss
TestMean ==
    /\ pc = "test_mean"
    /\ test_loss' = Mean(l_test_loss, n_batch)
    /\ pc' = "save_train"
    /\ UNCHANGED <<cfg, training, epoch, completed, hist, timing, train_loss, val_loss>>
    /\ UNCHANGED <<locals, ghost>>

\* ---- commit phase: the try block of train() ------------------------------

\* self._train_loss_history.append(self.__train_loss)
SaveTrain ==
    /\ pc = "save_train"
    /\ train_loss_history' = Append(train_loss_history, train_loss)
    /\ pc' = "save_valid"
    /\ UNCHANGED <<cfg, training, epoch, completed, valid_loss_history, test_loss_history>>
    /\ UNCHANGED <<timing, losses, locals, ghost>>

\* if self._has_valid: self._valid_loss_history.append(self.__val_loss)
SaveValid ==
    /\ pc = "save_valid"
    /\ valid_loss_history' = IF has_valid THEN Append(valid_loss_history, val_loss)
                                          ELSE valid_loss_history
    /\ pc' = "save_test"
    /\ UNCHANGED <<cfg, training, epoch, completed, train_loss_history, test_loss_history>>
    /\ UNCHANGED <<timing, losses, locals, ghost>>

\* if self._has_test: self._test_loss_history.append(self.__test_loss)
SaveTest ==
    /\ pc = "save_test"
    /\ test_loss_history' = IF has_test THEN Append(test_loss_history, test_loss)
                                        ELSE test_loss_history
    /\ pc' = "save_end"
    /\ UNCHANGED <<cfg, training, epoch, completed, train_loss_history, valid_loss_history>>
    /\ UNCHANGED <<timing, losses, locals, ghost>>

\* __try_save_loss_history() returns: the try block is left for the finally
SaveEnd == Goto("save_end", "timing")

\* ---- exceptions ----------------------------------------------------------

TrainPhase == {"train_iter", "zero_grad", "forward", "calc_loss", "backward",
               "clip", "step", "accum", "train_mean"}

EvalPhase == {"eval_begin", "valid_iter", "valid_forward", "valid_loss",
              "valid_accum", "valid_mean", "test_iter", "test_forward",
              "test_loss", "test_accum", "test_mean"}

CommitPhase == {"save_train", "save_valid", "save_test", "save_end"}

Computations == {"forward", "calc_loss", "backward", "step",
                 "valid_forward", "valid_loss", "test_forward", "test_loss"}

\* KeyboardInterrupt outside the try block: nothing in train() catches it
InterruptEpoch ==
    /\ pc \in TrainPhase \cup EvalPhase
    /\ Propagate("cancelled")
    /\ UNCHANGED <<cfg, training, epoch, completed, hist, timing, losses>>
    /\ UNCHANGED <<calls, start_epoch, fresh, epochs_run, batches, reports>>

\* KeyboardInterrupt inside the try block: caught by `except KeyboardInterrupt`
InterruptCommit ==
    /\ pc \in CommitPhase
    /\ exc' = "KeyboardInterrupt"
    /\ pc' = "retry"
    /\ UNCHANGED <<cfg, training, epoch, completed, hist, timing, losses>>
    /\ UNCHANGED <<loop_epoch, n_batch, it, loss, l_train_loss, l_val_loss, l_test_loss, seen>>
    /\ UNCHANGED ghost

\* a computation error that passes through the finally clause's increment
ComputationErrorCounted ==
    /\ pc \in Computations
    /\ Propagate("failed")
    /\ epoch' = epoch + 1
    /\ UNCHANGED <<cfg, training, completed, hist, timing, losses>>
    /\ UNCHANGED <<calls, start_epoch, fresh, epochs_run, batches, reports>>

\* forward, calc_loss, backward or optimizer.step raises: nothing catches it
ComputationError ==
    /\ pc \in Computations
    /\ Propagate("failed")
    /\ UNCHANGED <<cfg, training, epoch, completed, hist, timing, losses>>
    /\ UNCHANGED <<calls, start_epoch, fresh, epochs_run, batches, reports>>

\* ---- the except clause ---------------------------------------------------

\* the three histories __retry_save_loss_history() leaves
RetryTrain == IF Len(train_loss_history) # epoch
                 THEN Append(train_loss_history, train_loss)
                 ELSE train_loss_history

RetryValid == IF has_valid /\ Len(valid_loss_history) < Len(RetryTrain)
                 THEN Append(valid_loss_history, val_loss)
                 ELSE valid_loss_history

\* the test comparison of the recovery with <= in place of <
RetryTestLeq == IF has_test /\ Len(test_loss_history) <= Len(RetryValid)
                   THEN Append(test_loss_history, test_loss)
                   ELSE test_loss_history

RetryTest == IF has_test /\ Len(test_loss_history) < Len(RetryValid)
                THEN Append(test_loss_history, test_loss)
                ELSE test_loss_history

\* self.__retry_save_loss_history()
Retry ==
    /\ pc = "retry"
    /\ train_loss_history' = RetryTrain
    /\ valid_loss_history' = RetryValid
    /\ test_loss_history' = RetryTest
    /\ pc' = "restore"
    /\ UNCHANGED <<cfg, training, epoch, completed, timing, losses, locals, ghost>>

\* an except clause that also marks the run completed
HandlerRestoreCompletes ==
    /\ pc = "restore"
    /\ training' = initial_mode
    /\ completed' = TRUE
    /\ pc' = "timing"
    /\ UNCHANGED <<cfg, epoch, hist, timing, losses, locals, ghost>>

\* self._network.train(self._initial_mode); raise
HandlerRestore ==
    /\ pc = "restore"
    /\ training' = initial_mode
    /\ pc' = "timing"
    /\ UNCHANGED <<cfg, epoch, completed, hist, timing, losses, locals, ghost>>

\* ---- the finally clause --------------------------------------------------

\* __calc_timing_stats() without `self.__time_stamp = time_stamp`
CalcTimingKeepsStamp ==
    /\ pc = "timing"
    /\ \E d \in tick_vals :
        /\ now' = now + d
        /\ time_elapsed' = time_elapsed + ((now + d) - time_stamp)
        /\ run_time' = run_time + d
    /\ pc' = "draw"
    /\ UNCHANGED <<cfg, training, epoch, completed, hist, time_stamp, losses, locals, ghost>>

\* self.__calc_timing_stats()
CalcTiming ==
    /\ pc = "timing"
    /\ \E d \in tick_vals :
        /\ now' = now + d
        /\ time_elapsed' = time_elapsed + ((now + d) - time_stamp)
        /\ run_time' = run_time + d
        /\ time_stamp' = now + d
    /\ pc' = "draw"
    /\ UNCHANGED <<cfg, training, epoch, completed, hist, losses, locals, ghost>>

\* plt.plot(range(1, epoch + 1), history) accepts only a history of epoch points
Plottable ==
    /\ Len(train_loss_history) = epoch
    /\ has_valid => Len(valid_loss_history) = epoch
    /\ has_test => Len(test_loss_history) = epoch

\* self.draw_info(): the report is drawn, or plt.plot raises ValueError, which
\* leaves the finally clause at once and replaces the exception in flight
DrawInfo ==
    /\ pc = "draw"
    /\ IF Plottable
          THEN /\ reports' = reports + 1
               /\ pc' = "incr"
               /\ UNCHANGED <<last, locals>>
          ELSE /\ Propagate(IF exc = "KeyboardInterrupt" THEN "cancel_replaced"
                                                            ELSE "draw_failed")
               /\ UNCHANGED reports
    /\ UNCHANGED <<cfg, training, epoch, completed, hist, timing, losses>>
    /\ UNCHANGED <<calls, start_epoch, fresh, epochs_run, batches>>

\* self._epoch += 1, then the exception in flight is re-raised or the for
\* loop takes its next value
IncrEpoch ==
    /\ pc = "incr"
    /\ epoch' = epoch + 1
    /\ IF exc = "KeyboardInterrupt"
          THEN /\ Propagate("cancelled_commit")
          ELSE /\ pc' = IF loop_epoch < n_epochs THEN "epoch_begin" ELSE "finish"
               /\ loop_epoch' = IF loop_epoch < n_epochs THEN loop_epoch + 1 ELSE loop_epoch
               /\ UNCHANGED <<last, n_batch, it, loss, l_train_loss, l_val_loss, l_test_loss, exc, seen>>
    /\ UNCHANGED <<cfg, training, completed, hist, timing, losses>>
    /\ UNCHANGED <<calls, start_epoch, fresh, epochs_run, batches, reports>>

\* the end of train() without the assignment to _completed
FinishNoFlag ==
    /\ pc = "finish"
    /\ training' = initial_mode
    /\ pc' = "idle"
    /\ last' = "returned"
    /\ DropFrame
    /\ UNCHANGED <<cfg, epoch, completed, hist, timing, losses>>
    /\ UNCHANGED <<calls, start_epoch, fresh, epochs_run, batches, reports>>

\* self._completed = True; network.train(self._initial_mode); return
Finish ==
    /\ pc = "finish"
    /\ completed' = TRUE
    /\ training' = initial_mode
    /\ pc' = "idle"
    /\ last' = "returned"
    /\ DropFrame
    /\ UNCHANGED <<cfg, epoch, hist, timing, losses>>
    /\ UNCHANGED <<calls, start_epoch, fresh, epochs_run, batches, reports>>

Next ==
    \/ ClearHistory
    \/ TrainCall
    \/ EpochBegin
    \/ TrainNext
    \/ ZeroGrad
    \/ Forward
    \/ CalcLoss
    \/ Backward
    \/ Clip
    \/ Step
    \/ Accum
    \/ TrainMean
    \/ EvalBegin
    \/ ValidNext
    \/ ValidForward
    \/ ValidLoss
    \/ ValidAccum
    \/ ValidMean
    \/ TestNext
    \/ TestForward
    \/ TestLoss
    \/ TestAccum
    \/ TestMean
    \/ SaveTrain
    \/ SaveValid
    \/ SaveTest
    \/ SaveEnd
    \/ InterruptEpoch
    \/ InterruptCommit
    \/ ComputationError
    \/ Retry
    \/ HandlerRestore
    \/ CalcTiming
    \/ DrawInfo
    \/ IncrEpoch
    \/ Finish

Spec == Init /\ [][Next]_vars

\* ---- what the caller can observe ------------------------------------------

\* how control last came back to the caller:
\*   "constructed", "cleared", "returned";
\*   "cancelled"        a KeyboardInterrupt raised outside the try block;
\*   "cancelled_commit" a KeyboardInterrupt raised in the commit phase, re-raised;
\*   "cancel_replaced"  a KeyboardInterrupt raised in the commit phase, replaced by
\*                      the ValueError of draw_info() in the finally clause;
\*   "failed"           an error of forward, calc_loss, backward or step;
\*   "draw_failed"      the ValueError of draw_info() after a commit that was
\*                      not interrupted
Outcomes == {"constructed", "cleared", "running", "returned", "cancelled",
             "cancelled_commit", "cancel_replaced", "failed", "draw_failed"}

TypeOK ==
    /\ epoch \in 1..(MaxEpochs + 1)
    /\ last \in Outcomes
    /\ pc \in {"idle", "epoch_begin", "retry", "restore", "timing", "draw", "incr", "finish"}
              \cup TrainPhase \cup EvalPhase \cup CommitPhase

\* the length an enabled history has, and a disabled one
Expected(enabled, n) == IF enabled THEN n ELSE 0

LengthsAre(n) ==
    /\ Len(train_loss_history) = n
    /\ Len(valid_loss_history) = Expected(has_valid, n)
    /\ Len(test_loss_history) = Expected(has_test, n)

\* ---- C1 --------------------------------------------------------------------
\* C1: at every between-epoch observation point (after construction, after an
\* epoch's increment, after train() returned, after a cancellation raised in
\* the commit phase has ended the invocation, after clear_history()) the train
\* history has epoch - 1 entries, and so has each of the valid and test
\* histories whose source is configured, the others being empty.
C1_ObservationPoint ==
    \/ pc \in {"epoch_begin", "finish"}
    \/ /\ pc = "idle"
       /\ last \in {"constructed", "returned", "cleared", "cancelled_commit",
                    "cancel_replaced"}

C1_HistoryLengthInvariant == C1_ObservationPoint => LengthsAre(epoch - 1)

\* ---- C2 --------------------------------------------------------------------
\* C2: once __retry_save_loss_history() has run after a cancellation in the
\* commit phase, every enabled history holds the loss of the current epoch
\* exactly once: its length is the one an uninterrupted commit produces.
C2_IdempotentInterruptedCommit == pc = "restore" => LengthsAre(epoch)

\* ---- C3 --------------------------------------------------------------------
\* C3 as stated: in every reachable state the test history is never longer
\* than the valid history.
C3_TestNeverLongerThanValid == Len(test_loss_history) <= Len(valid_loss_history)

\* C3 as amended: in every reachable state of a trainer that has a valid source,
\* or has no test source, the test history is never longer than the valid one.
C3_TestNeverLongerWhenValid ==
    (has_valid \/ ~has_test) => Len(test_loss_history) <= Len(valid_loss_history)

\* both sources configured, a cancellation between the valid and the test
\* append, and the recovery has appended the test loss of the second epoch
C3_Witness ==
    /\ has_valid
    /\ has_test
    /\ pc = "restore"
    /\ Len(valid_loss_history) = 2
    /\ Len(test_loss_history) = 2

\* ---- C4 --------------------------------------------------------------------
\* C4: whenever train() has returned, and whenever a cancellation that arrived
\* in the train, evaluation or commit phase has propagated to the caller, the
\* network is in the mode it had at construction.
C4_ModeRestoration ==
    (pc = "idle" /\ last \in {"returned", "cancelled", "cancelled_commit"})
        => training = initial_mode


\* ---- C5 --------------------------------------------------------------------
\* C5: completed implies epoch > n_epochs; completed is false while train()
\* runs an epoch; and when the caller is in control with completed set, the
\* last invocation of train() returned normally (no cancellation and no error
\* came out of it).
C5_CompletionFlagSafety ==
    /\ completed => epoch > n_epochs
    /\ completed => pc \in {"idle", "finish"}
    /\ (completed /\ pc = "idle") => last = "returned"

\* an uninterrupted run of two epochs has returned and set the flag
C5_Witness ==
    /\ completed
    /\ pc = "idle"
    /\ last = "returned"
    /\ n_epochs = 2
    /\ epochs_run = 2

\* ---- C6 --------------------------------------------------------------------
\* C6 as stated: whenever the caller is in control, epoch > n_epochs implies
\* completed.
C6_CompleteWhenEpochExceeds == (pc = "idle" /\ epoch > n_epochs) => completed

\* C6 as amended: whenever the caller is in control, epoch > n_epochs implies
\* completed unless the last invocation ended with a cancellation raised in the
\* commit phase; after such a cancellation completed is false, whatever epoch is.
C6_CompleteUnlessCancelled ==
    /\ (pc = "idle" /\ epoch > n_epochs /\ last # "cancelled_commit") => completed
    /\ (pc = "idle" /\ last = "cancelled_commit") => ~completed

\* the last epoch's commit was cancelled, train() was invoked again and returned
C6_Witness ==
    /\ pc = "idle"
    /\ epoch > n_epochs
    /\ last = "returned"
    /\ calls >= 2
    /\ epochs_run = 0
    /\ completed
    /\ Len(train_loss_history) = n_epochs

\* ---- C7 --------------------------------------------------------------------
\* C7: right after clear_history() the three histories are empty, epoch is 1,
\* completed is false and the elapsed time is 0; and an invocation of train()
\* that starts right after clear_history() and returns has run exactly n_epochs
\* epochs, as a fresh run does.
C7_ClearResetsFully ==
    /\ last = "cleared" =>
        /\ pc = "idle"
        /\ LengthsAre(0)
        /\ epoch = 1
        /\ ~completed
        /\ time_elapsed = 0
    /\ (pc = "idle" /\ last = "returned" /\ fresh) =>
        /\ epochs_run = n_epochs
        /\ reports = n_epochs
        /\ epoch = n_epochs + 1
        /\ LengthsAre(n_epochs)
        /\ completed

\* an earlier invocation left its trace, clear_history() was called, and the
\* next invocation has run to its end
C7_Witness ==
    /\ pc = "idle"
    /\ last = "returned"
    /\ fresh
    /\ calls >= 2
    /\ n_epochs = 2
    /\ epochs_run = 2

\* ---- C8 --------------------------------------------------------------------
\* C8: every step of an invocation of train() on a completed trainer leaves
\* epoch, the three histories, the elapsed time and completed as they are,
\* processes no batch, pushes no report and starts no epoch.
C8_CompletedTrainIsNoOp ==
    [][(completed /\ (pc # "idle" \/ pc' # "idle")) =>
          /\ UNCHANGED <<epoch, hist, time_elapsed, completed>>
          /\ batches' = 0
          /\ reports' = 0
          /\ epochs_run' = 0
          /\ pc' \in {"finish", "idle"}]_vars

\* train() has been invoked on a completed trainer
C8_Witness ==
    /\ completed
    /\ pc = "finish"
    /\ Len(train_loss_history) = n_epochs

\* ---- C9 --------------------------------------------------------------------
\* C9: the step by which an error of forward, calc_loss, backward or
\* optimizer.step (train phase) or of forward or calc_loss (evaluation phase)
\* leaves train() gives control to the caller at once and changes no history,
\* not the epoch counter, not the elapsed time, not the number of reports and
\* not completed.
C9_ComputationErrorsFreezeState ==
    [][(pc \in Computations /\ last' = "failed") =>
          /\ pc' = "idle"
          /\ UNCHANGED <<epoch, hist, time_elapsed, completed, reports>>]_vars

\* an error in the evaluation phase of the second epoch has reached the caller
C9_Witness ==
    /\ pc = "idle"
    /\ last = "failed"
    /\ epochs_run = 2
    /\ reports = 1
    /\ training = FALSE
    /\ initial_mode = TRUE

\* ---- C10 -------------------------------------------------------------------
\* C10: once a cancellation has arrived in the commit phase, the invocation
\* keeps it in flight through the recovery and the finally clause, starts no
\* further epoch, does not set completed, and ends by raising it to the caller.
C10_CancellationNeverSwallowed ==
    [][exc = "KeyboardInterrupt" =>
          /\ ~completed'
          /\ \/ /\ pc' \in {"restore", "timing", "draw", "incr"}
                /\ exc' = "KeyboardInterrupt"
             \/ /\ pc' = "idle"
                /\ pc = "incr"
                /\ last' = "cancelled_commit"]_vars

\* ---- C11 -------------------------------------------------------------------
\* the positions inside an epoch pass, and the step by which a pass ends, either
\* completed or cut short by a cancellation (not by an error)
InPass == TrainPhase \cup EvalPhase \cup CommitPhase
              \cup {"retry", "restore", "timing", "draw", "incr"}

PassEnds ==
    /\ pc \in InPass
    /\ pc' \in {"idle", "epoch_begin", "finish"}
    /\ last' \notin {"failed", "draw_failed"}

\* C11: the step that ends an epoch pass, completed or cut short by a
\* cancellation in its train, evaluation or commit phase, raises epoch by
\* exactly 1, and epoch changes in no other step except clear_history(), which
\* sets it to 1.
C11_EpochIncrementedOncePerPass ==
    [][/\ PassEnds => epoch' = epoch + 1
       /\ epoch' # epoch => \/ PassEnds
                            \/ (pc = "idle" /\ last' = "cleared" /\ epoch' = 1)]_vars

\* ---- C12 -------------------------------------------------------------------
ValidLoop == {"valid_iter", "valid_forward", "valid_loss", "valid_accum", "valid_mean"}

TestLoop == {"test_iter", "test_forward", "test_loss", "test_accum", "test_mean"}

\* a source that is absent is never iterated and its history never grows
EvaluationGated ==
    /\ pc = "eval_begin" => (has_valid \/ has_test)
    /\ pc \in ValidLoop => has_valid
    /\ pc \in TestLoop => has_test
    /\ ~has_valid => (valid_loss_history = <<>> /\ seen_valid = <<>>)
    /\ ~has_test => (test_loss_history = <<>> /\ seen_test = <<>>)

\* C12 as stated: an absent source is never iterated and its history stays
\* empty, and with both sources absent no step of train() takes the network
\* from training mode to evaluation mode.
C12_EvaluationPhaseGating ==
    [][/\ EvaluationGated'
       /\ (~has_valid /\ ~has_test) => ~(training /\ ~training')]_vars

\* C12 as amended: an absent source is never iterated and its history stays
\* empty, and with both sources absent the only steps of train() that take the
\* network to evaluation mode are the two that restore an initial evaluation
\* mode (in the except clause and at the end of train()).
C12_EvaluationPhaseGatingButRestore ==
    [][/\ EvaluationGated'
       /\ (~has_valid /\ ~has_test /\ training /\ ~training') =>
              (pc \in {"restore", "finish"} /\ ~initial_mode)]_vars

\* no source but the train source, two epochs run, train() has returned
C12_Witness ==
    /\ ~has_valid
    /\ ~has_test
    /\ pc = "idle"
    /\ last = "returned"
    /\ epochs_run = 2
    /\ Len(train_loss_history) = 2

\* ---- C13 -------------------------------------------------------------------
\* the statement at `to` is entered only from the statement at `from`
Follows(to, from) == (pc' = to /\ pc # to) => pc = from

\* unless an exception leaves train(), the statement at `from` leads to `to`
LeadsOn(from, to) == (pc = from /\ pc' \notin {from, "idle"}) => pc' = to

\* clip_grad_norm_ calls made so far in this epoch: one for every train batch
\* that is past its backward pass if clip_rate is given, none otherwise
ClipCount ==
    clips = IF clip_rate
               THEN Len(seen_train) + (IF pc \in {"step", "accum"} THEN 1 ELSE 0)
               ELSE 0

AfterBackward == IF clip_rate THEN "clip" ELSE "step"

\* C13: without clip_rate no clip is ever invoked; with clip_rate one clip is
\* invoked per train batch, after its backward pass and before its optimizer
\* step, and none in the valid and test loops; the statements of a train batch
\* run in the order zero-grad, forward, loss, backward, (clip), optimizer step.
C13_ClipGatingAndOrder ==
    [][/\ ClipCount'
       /\ pc' = "clip" => clip_rate
       /\ Follows("zero_grad", "train_iter") /\ LeadsOn("zero_grad", "forward")
       /\ Follows("forward", "zero_grad") /\ LeadsOn("forward", "calc_loss")
       /\ Follows("calc_loss", "forward") /\ LeadsOn("calc_loss", "backward")
       /\ Follows("backward", "calc_loss") /\ LeadsOn("backward", AfterBackward)
       /\ Follows("clip", "backward") /\ LeadsOn("clip", "step")
       /\ Follows("step", IF clip_rate THEN "clip" ELSE "backward")
       /\ LeadsOn("step", "accum")
       /\ Follows("accum", "step")]_vars

\* the second train batch of an epoch has been clipped and stepped, and the
\* pass has gone through a valid loop without another clip
C13_Witness ==
    /\ clip_rate
    /\ has_valid
    /\ pc = "save_train"
    /\ clips = NTrainBatches
    /\ Len(seen_valid) = NValidBatches

\* ---- C14 -------------------------------------------------------------------
\* a trainer of one epoch, built with a clip_rate around a network in training
\* mode, whose calc_loss returns 2 or 4
InitMean ==
    /\ loss_vals = {2, 4}
    /\ tick_vals = {1}
    /\ Constructed
    /\ n_epochs = 1
    /\ clip_rate
    /\ initial_mode

SpecMean == InitMean /\ [][Next]_vars

RECURSIVE SumSeq(_)
SumSeq(s) == IF s = <<>> THEN 0 ELSE s[1] + SumSeq(Tail(s))

\* the quotient kept in v is the mean of the losses in s
IsMeanOf(v, s) ==
    /\ s # <<>>
    /\ v[2] # 0
    /\ v[1] * Len(s) = SumSeq(s) * v[2]

\* history h has just been given the mean of the losses in s
CommitsMean(h, hNext, s) ==
    Len(hNext) = Len(h) + 1 => IsMeanOf(hNext[Len(hNext)], s)

TimingPhaseInOrder ==
    /\ (pc \in CommitPhase /\ exc' = "KeyboardInterrupt") => pc' = "retry"
    /\ pc = "retry" => pc' = "restore"
    /\ pc = "restore" => (pc' = "timing" /\ training' = initial_mode)
    /\ (pc = "save_end" /\ exc' = "none") => pc' = "timing"
    /\ pc = "timing" => (pc' = "draw" /\ time_elapsed' > time_elapsed)
    /\ pc = "draw" => (pc' = "incr" /\ reports' = reports + 1)
    /\ pc = "incr" => (epoch' = epoch + 1 /\ pc' \in {"idle", "epoch_begin", "finish"})
    /\ (pc = "incr" /\ exc = "KeyboardInterrupt") => last' = "cancelled_commit"

\* C15: after the commit, interrupted or not, the timing update, one report
\* and the increment of epoch happen once each and in this order; after a
\* cancellation in the commit they are preceded by the recovery and the
\* restoration of the mode, and followed by the cancellation reaching the caller.
C15_TimingPhaseAlwaysRuns == [][TimingPhaseInOrder]_vars

\* ---- C16 -------------------------------------------------------------------
\* an epoch is begun and committed only if no epoch of its number was
\* committed before
EpochsCommittedOnce ==
    /\ pc \in {"epoch_begin", "save_train"} =>
           (loop_epoch = epoch /\ Len(train_loss_history) = epoch - 1)
    /\ (pc = "save_valid" /\ has_valid) => Len(valid_loss_history) = epoch - 1
    /\ (pc = "save_test" /\ has_test) => Len(test_loss_history) = epoch - 1

\* C16: after a cancellation in the commit of epoch k has reached the caller
\* the epoch counter is k + 1 and k + 1 is the next epoch trained; no epoch
\* is trained or committed twice; once completed, the train history and every
\* enabled history have n_epochs entries.
C16_ResumeAtNextEpoch ==
    /\ EpochsCommittedOnce
    /\ (pc = "idle" /\ last \in {"cancelled_commit", "cancel_replaced"}) =>
           (epoch = start_epoch + epochs_run /\ LengthsAre(epoch - 1))
    /\ completed => LengthsAre(n_epochs)

\* ---- C17 -------------------------------------------------------------------
\* clear_history() has just been called
Clearing == pc = "idle" /\ last' = "cleared"

\* C17: elapsed time is the sum, over the timing updates since the last
\* clear_history(), of the time since the previous reading of the clock (the
\* previous timing update or the start of the enclosing train()); it changes
\* only in a timing update and in clear_history(), which alone decreases it,
\* so time that passes outside train() is never added.
C17_ElapsedTimeIsRunTime ==
    [][/\ time_elapsed' = run_time'
       /\ time_elapsed' < time_elapsed => (Clearing /\ time_elapsed' = 0)
       /\ time_elapsed' > time_elapsed => pc = "timing"
       /\ (pc = "idle" /\ ~Clearing) => time_elapsed' = time_elapsed]_vars

\* in a second train(): of the five units of time read so far, the unit that
\* passed before each train() read the clock is not counted, the three units
\* of the timing updates are
C17_Witness ==
    /\ calls = 2
    /\ pc = "draw"
    /\ time_elapsed = 3
    /\ now = 5
    /\ last = "running"

\* ---- C18 -------------------------------------------------------------------
\* C18: when draw_info() is called from the finally clause, before the epoch
\* counter is incremented, the train history and every enabled history have
\* exactly epoch entries, one point for each of 1..epoch.
C18_ReportConsistency ==
    pc = "draw" =>
        /\ Len(train_loss_history) = epoch
        /\ has_valid => Len(valid_loss_history) = epoch
        /\ has_test => Len(test_loss_history) = epoch

\* ---- C19 -------------------------------------------------------------------
\* C19: a train() invocation in which no cancellation and no computation error
\* occurs does not end in an error, and when it has returned it has run the
\* epochs from the one it started with up to n_epochs, epoch is n_epochs + 1,
\* completed is set and the network is in its initial mode.
C19_NaturalCompletion ==
    /\ last # "draw_failed"
    /\ (pc = "idle" /\ last = "returned") =>
           /\ epoch = n_epochs + 1
           /\ completed
           /\ training = initial_mode
           /\ epochs_run = n_epochs + 1 - start_epoch

====
